---- MODULE Spec2Model ----
(***************************************************************************)
(* Model of server.js, the OpenAI -> NVIDIA NIM proxy: the handler of      *)
(* POST /v1/chat/completions (credential check, model mapping, upstream    *)
(* request construction, the axios call, the streaming relay, the JSON     *)
(* reshaping and the catch block), for one or several in-flight requests.  *)
(*                                                                         *)
(* State: process (whether the program runs), the configuration read at    *)
(* start-up (NIM_API_KEY, NIM_API_BASE, MODEL_MAPPING) and, per request:   *)
(* pc (the handler's position), body (req.body), mock (what the upstream   *)
(* does for this request: the failure, the JSON document or the events of  *)
(* the stream it answers with, the readings of Date.now(), and when the    *)
(* caller hangs up, if it does), emitted                                   *)
(* (how many events the upstream stream has emitted), sent (the axios.post *)
(* calls issued) and res (the caller-facing response).                     *)
(*                                                                         *)
(* JavaScript values.  An optional value (a field that may be undefined)   *)
(* is a sequence of length 0 or 1: Undefined is << >>, a present value v   *)
(* is <<v>>.  Temperatures are counted in tenths (0.7 is 7).               *)
(*                                                                         *)
(* The source as written does not load: the MODEL_MAPPING literal lacks    *)
(* the comma after the 'gemini-pro' entry (line 25), so node stops with a  *)
(* SyntaxError and nothing listens.  process records this: it is           *)
(* "SyntaxError" for the file as written, "listening" for the file with    *)
(* that one comma restored (ModelTable is the table of that file), and     *)
(* "exited" once an unhandled 'error' event has ended the process.         *)
(*                                                                         *)
(* The upstream stream.  The three listeners of lines 115-125 carry no     *)
(* condition of their own: each runs whenever response.data emits its      *)
(* event.  The stream is therefore modelled as an emitter that may emit    *)
(* 'data', 'end' and 'error' in any order (mock.events); the streams that  *)
(* keep the contract of a node Readable, nothing after 'end' or 'error',   *)
(* are the ones ReadableContract describes.  A 'data' event after the      *)
(* response was ended reaches res.write on an ended response.              *)
(*                                                                         *)
(* The caller.  The caller may destroy its connection while its request is *)
(* in flight (mock.hangup): res is then closed without being ended, and    *)
(* what the handler hands to it afterwards goes nowhere.  The upstream     *)
(* call is not cancelled.                                                  *)
(***************************************************************************)
EXTENDS Integers, Sequences, FiniteSets, TLC

VARIABLES process, NIM_API_KEY, NIM_API_BASE, MODEL_MAPPING, pc, body, mock, emitted, sent, res

config == <<NIM_API_KEY, NIM_API_BASE, MODEL_MAPPING>>
vars == <<process, NIM_API_KEY, NIM_API_BASE, MODEL_MAPPING, pc, body, mock, emitted, sent, res>>

----------------------------------------------------------------------------
(* Bounds *)

NumRequests == 2
MaxEvents == 3
MaxChoices == 2

Requests == 1 .. NumRequests

----------------------------------------------------------------------------
(* JavaScript helpers *)

Undefined == << >>
Some(v) == <<v>>

\* !!x for an optional number: undefined, 0 are falsy
TruthyNum(o) == o # Undefined /\ o[1] # 0
\* !!x for an optional string: undefined, '' are falsy
TruthyStr(o) == o # Undefined /\ o[1] # ""
\* !!x for an optional boolean
TruthyBool(o) == o # Undefined /\ o[1]
\* !!x for an optional object: every object is truthy
TruthyObj(o) == o # Undefined

----------------------------------------------------------------------------
(* Configuration *)

DefaultBase == "https://integrate.api.nvidia.com/v1"
DefaultModelKey == "gpt-3.5-turbo"

\* the two texts of the program: lines 18-28 as they stand, and with the
\* comma restored after the 'gemini-pro' entry
SourceVariants == {"as written", "comma restored"}

\* what node makes of the file: the text as written is rejected by the parser
\* ("SyntaxError: Unexpected string" at line 26), so app.listen never runs
Load(variant) == IF variant = "as written" THEN "SyntaxError" ELSE "listening"

\* no table exists when the file does not load
NoTable == [k \in {} |-> ""]

\* MODEL_MAPPING of the file with the comma restored
ModelTable ==
  [k \in {"gpt-3.5-turbo", "gpt-4", "gpt-4-turbo", "gpt-4o", "claude-3-opus",
          "claude-3-sonnet", "gemini-pro", "deepseek-v3.2", "deepseek-r1-0528"} |->
     CASE k = "gpt-3.5-turbo" -> "meta/llama-3.1-8b-instruct"
       [] k = "gpt-4" -> "meta/llama-3.1-70b-instruct"
       [] k = "gpt-4-turbo" -> "meta/llama-3.1-405b-instruct"
       [] k = "gpt-4o" -> "meta/llama-3.1-405b-instruct"
       [] k = "claude-3-opus" -> "meta/llama-3.1-405b-instruct"
       [] k = "claude-3-sonnet" -> "meta/llama-3.1-70b-instruct"
       [] k = "gemini-pro" -> "meta/llama-3.1-70b-instruct"
       [] k = "deepseek-v3.2" -> "deepseek-ai/deepseek-v3.1"
       [] k = "deepseek-r1-0528" -> "deepseek-ai/deepseek-r1-0528"]

\* MODEL_MAPPING is an object literal: besides its own keys, a property read
\* finds the members it inherits from Object.prototype.
ObjectPrototypeKeys ==
  {"constructor", "toString", "valueOf", "hasOwnProperty", "isPrototypeOf",
   "propertyIsEnumerable", "toLocaleString", "__proto__", "__defineGetter__",
   "__defineSetter__", "__lookupGetter__", "__lookupSetter__"}

InheritedValue(k) == "[inherited Object.prototype." \o k \o "]"

\* table[key]: the own entry, else the inherited member, else undefined.  An
\* undefined key reads the property named "undefined".
GetProperty(table, key) ==
  LET name == IF key = Undefined THEN "undefined" ELSE key[1]
  IN  IF name \in DOMAIN table THEN Some(table[name])
      ELSE IF name \in ObjectPrototypeKeys THEN Some(InheritedValue(name))
      ELSE Undefined

\* const nimModel = MODEL_MAPPING[model] || MODEL_MAPPING['gpt-3.5-turbo'];
nimModel(table, model) ==
  LET hit == GetProperty(table, model)
  IN  IF TruthyStr(hit) THEN hit ELSE GetProperty(table, Some(DefaultModelKey))

----------------------------------------------------------------------------
(* Request construction *)

DefaultTemperature == 7
DefaultMaxTokens == 2048
Timeout == 60000

\* const nimRequest = { model, messages, temperature || 0.7, max_tokens || 2048, stream || false }
nimRequest(table, b) ==
  [model |-> nimModel(table, b.model),
   messages |-> b.messages,
   temperature |-> IF TruthyNum(b.temperature) THEN b.temperature[1] ELSE DefaultTemperature,
   max_tokens |-> IF TruthyNum(b.max_tokens) THEN b.max_tokens[1] ELSE DefaultMaxTokens,
   stream |-> IF TruthyBool(b.stream) THEN b.stream[1] ELSE FALSE]

\* responseType: stream ? 'stream' : 'json'
responseType(b) == IF TruthyBool(b.stream) THEN "stream" ELSE "json"

\* the arguments of axios.post
AxiosCall(base, key, table, b) ==
  [url |-> <<base, "/chat/completions">>,
   data |-> nimRequest(table, b),
   headers |-> {<<"Authorization", "Bearer " \o key[1]>>,
                <<"Content-Type", "application/json">>},
   responseType |-> responseType(b),
   timeout |-> Timeout]

----------------------------------------------------------------------------
(* Non-streaming reshaping, lines 127-151 *)

ZeroUsage == [prompt_tokens |-> 0, completion_tokens |-> 0, total_tokens |-> 0]

\* response.data.choices.map(...) throws a TypeError when response.data is
\* null, when it has no choices, or when a choice has no message
ReshapeThrows(data) ==
  \/ data = Undefined
  \/ data[1].choices = Undefined
  \/ \E i \in 1 .. Len(data[1].choices[1]) : data[1].choices[1][i].message = Undefined

TypeErrorMessage(data) ==
  IF data = Undefined THEN "Cannot read properties of null (reading 'choices')"
  ELSE IF data[1].choices = Undefined THEN "Cannot read properties of undefined (reading 'map')"
  ELSE "Cannot read properties of undefined (reading 'role')"

\* choice => ({ index, message: { role, content }, finish_reason })
mapChoice(choice) ==
  [index |-> choice.index,
   message |-> [role |-> choice.message[1].role, content |-> choice.message[1].content],
   finish_reason |-> choice.finish_reason]

\* variant: the response names the upstream model (model: nimModel)
openaiResponse_upstreamModel(model, data, now, later) ==
  [id |-> <<"chatcmpl-", now>>,
   object |-> "chat.completion",
   created |-> later \div 1000,
   model |-> nimModel(ModelTable, model),
   choices |-> [i \in 1 .. Len(data[1].choices[1]) |-> mapChoice(data[1].choices[1][i])],
   usage |-> IF TruthyObj(data[1].usage) THEN data[1].usage[1] ELSE ZeroUsage]

\* const openaiResponse = { id, object, created, model, choices, usage }
\* now and later are the two readings of Date.now(), lines 130 and 132
openaiResponse(model, data, now, later) ==
  [id |-> <<"chatcmpl-", now>>,
   object |-> "chat.completion",
   created |-> later \div 1000,
   model |-> model,
   choices |-> [i \in 1 .. Len(data[1].choices[1]) |-> mapChoice(data[1].choices[1][i])],
   usage |-> IF TruthyObj(data[1].usage) THEN data[1].usage[1] ELSE ZeroUsage]

----------------------------------------------------------------------------
(* Errors and the catch block, lines 153-166 *)

\* the error axios rejects with.  With responseType 'stream' the body of a
\* failed response is handed over as an unread stream, not as a parsed document.
AxiosError(failure, rt) ==
  [message |-> CASE failure.kind = "network" -> "Network Error"
                 [] failure.kind = "timeout" -> "timeout of " \o ToString(Timeout) \o "ms exceeded"
                 [] OTHER -> "Request failed with status code " \o ToString(failure.status),
   response |-> IF failure.kind = "status"
                THEN Some([status |-> failure.status,
                           data |-> IF rt = "stream" THEN [isStream |-> TRUE, error |-> Undefined]
                                    ELSE [isStream |-> FALSE, error |-> failure.body.error]])
                ELSE Undefined]

TypeError(message) == [message |-> message, response |-> Undefined]

\* variant: no fallback status (error.response?.status)
statusCode_noFallback(error) ==
  IF error.response # Undefined THEN error.response[1].status ELSE 0

\* const statusCode = error.response?.status || 500;
statusCode(error) ==
  IF error.response # Undefined /\ error.response[1].status # 0
  THEN error.response[1].status ELSE 500

\* const errorMessage = error.response?.data?.error?.message || error.message;
errorMessage(error) ==
  LET m == IF error.response = Undefined THEN Undefined
           ELSE IF error.response[1].data.error = Undefined THEN Undefined
           ELSE error.response[1].data.error[1].message
  IN  IF TruthyStr(m) THEN m[1] ELSE error.message

ErrorEnvelope(error) ==
  [error |-> [message |-> errorMessage(error), type |-> "nvidia_api_error",
              code |-> statusCode(error)]]

ConfigurationEnvelope ==
  [error |-> [message |-> "NIM_API_KEY não configurada no servidor",
              type |-> "configuration_error"]]

----------------------------------------------------------------------------
(* The caller-facing response object *)

\* json: the documents handed to res.json; chunks: the chunks res.write
\* accepted for the caller; ended: res.end() was called (the response is
\* finished); closed: the response was destroyed ('close'), after its last
\* byte left or because the caller hung up; queued: the 'error' events handed
\* to process.nextTick; errors: the ones emitted
FreshRes == [statusCode |-> 200, headers |-> {}, chunks |-> << >>, json |-> << >>,
             ended |-> FALSE, endCalls |-> 0, closed |-> FALSE,
             queued |-> << >>, errors |-> << >>]

setHeader(rs, name, value) ==
  [rs EXCEPT !.headers = {h \in @ : h[1] # name} \cup {<<name, value>>}]

\* res.status(code).json(payload): sets the status, sends the document, ends
statusJson(rs, code, payload) ==
  [setHeader(rs, "Content-Type", "application/json")
     EXCEPT !.statusCode = code, !.json = Append(@, payload),
            !.ended = TRUE, !.endCalls = @ + 1]

\* res.write(chunk).  On an open response the chunk goes to the caller.  On
\* a closed response, ended or not, the chunk is dropped, the call returns
\* false and nothing is queued.  On an ended response that is not yet closed
\* the chunk is dropped, the call returns false and one 'error' event
\* (ERR_STREAM_WRITE_AFTER_END) is handed to process.nextTick.
write(rs, chunk) ==
  IF rs.closed THEN rs
  ELSE IF rs.ended THEN [rs EXCEPT !.queued = Append(@, "ERR_STREAM_WRITE_AFTER_END")]
  ELSE [rs EXCEPT !.chunks = Append(@, chunk)]

\* the nextTick callback of one queued 'error' event: the event is emitted on
\* res unless res was closed in the meantime
emitErrorNT(rs) ==
  [rs EXCEPT !.queued = Tail(@),
             !.errors = IF rs.closed THEN @ ELSE Append(@, Head(rs.queued))]

\* res.end(); a second call changes nothing the caller sees
end(rs) == [rs EXCEPT !.ended = TRUE, !.endCalls = @ + 1]

\* 'close' of res: the response is destroyed
close(rs) == [rs EXCEPT !.closed = TRUE]

EventStreamHeaders ==
  {<<"Content-Type", "text/event-stream">>, <<"Cache-Control", "no-cache">>,
   <<"Connection", "keep-alive">>}

\* the three res.setHeader calls of the stream branch
setEventStreamHeaders(rs) ==
  setHeader(setHeader(setHeader(rs, "Content-Type", "text/event-stream"),
                      "Cache-Control", "no-cache"), "Connection", "keep-alive")

----------------------------------------------------------------------------
(* Inputs: request bodies and upstream behaviours *)

SeqsUpTo(S, n) == UNION {[1 .. k -> S] : k \in 0 .. n}

UnknownModel == "my-custom-model"

\* req.body.model: missing, three keys of the table, an unknown identifier,
\* three names inherited from Object.prototype
ModelInputs ==
  {Undefined} \cup {Some(k) : k \in {"gpt-3.5-turbo", "gpt-4", "deepseek-v3.2", UnknownModel,
                                     "constructor", "__proto__", "__defineGetter__"}}

MessagesInputs ==
  {Some(<< >>), Some(<<[role |-> "user", content |-> "hello"]>>)}

\* req.body of the single request of Spec
Bodies ==
  [model : ModelInputs,
   messages : MessagesInputs,
   temperature : {Undefined, Some(0), Some(10)},
   max_tokens : {Undefined, Some(0), Some(100)},
   stream : {Undefined, Some(FALSE), Some(TRUE)}]

\* the bodies for which every upstream behaviour is explored; the other
\* bodies meet callers that stay connected and streams of at most one event
RelayBodies ==
  {b \in Bodies : /\ b.messages = Some(<< >>)
                  /\ b.temperature = Undefined
                  /\ b.max_tokens = Undefined}

\* req.body of the concurrent requests of SpecConc: two models with their
\* own messages and temperature; "gpt-4" streaming or not, the other not
ConcBodies ==
  {b \in Bodies : /\ b.model \in {Some("gpt-4"), Some("deepseek-v3.2")}
                  /\ b.model = Some("deepseek-v3.2") => b.stream = Undefined
                  /\ b.messages = (IF b.model = Some("gpt-4")
                                   THEN Some(<< >>)
                                   ELSE Some(<<[role |-> "user", content |-> "hello"]>>))
                  /\ b.temperature = (IF b.model = Some("gpt-4") THEN Undefined ELSE Some(10))
                  /\ b.max_tokens = Undefined
                  /\ b.stream \in {Undefined, Some(TRUE)}}

EmptyBody ==
  [model |-> Undefined, messages |-> Undefined, temperature |-> Undefined,
   max_tokens |-> Undefined, stream |-> Undefined]

FailStatuses == {400, 429, 503}

\* the body of a failed upstream response: a structured error document, or text
ErrorBodies ==
  {[text |-> "", error |-> Some([message |-> Some("rate limited")])],
   [text |-> "Bad Gateway", error |-> Undefined]}

NoBody == [text |-> "", error |-> Undefined]

Failures ==
  {[kind |-> "network", status |-> 0, body |-> NoBody],
   [kind |-> "timeout", status |-> 0, body |-> NoBody]}
  \cup [kind : {"status"}, status : FailStatuses, body : ErrorBodies]

ChoiceValues ==
  {[index |-> 0, message |-> Some([role |-> "assistant", content |-> "hi"]),
    finish_reason |-> "stop", logprobs |-> "a"],
   [index |-> 1, message |-> Some([role |-> "assistant", content |-> "there"]),
    finish_reason |-> "length", logprobs |-> "b"],
   [index |-> 0, message |-> Undefined, finish_reason |-> "stop", logprobs |-> "c"]}

UsageValues ==
  {Undefined, Some([prompt_tokens |-> 3, completion_tokens |-> 4, total_tokens |-> 7])}

\* the parsed body of a 2xx upstream response: null, or a document with or
\* without a choices array and with or without usage
JsonDocuments ==
  {Undefined}
  \cup {Some(d) : d \in [choices : {Undefined} \cup {Some(c) : c \in SeqsUpTo(ChoiceValues, MaxChoices)},
                         usage : UsageValues]}

Clock == {1700000999, 1700001000}

ChunkValues == {"data: a\n\n", "data: b\n\n"}

\* what response.data can emit: a chunk, the end of the stream, an error
EvData(chunk) == [type |-> "data", chunk |-> chunk]
EvEnd == [type |-> "end", chunk |-> ""]
EvError == [type |-> "error", chunk |-> ""]

EventValues == {EvData(c) : c \in ChunkValues} \cup {EvEnd, EvError}

NoMock ==
  [kind |-> "none", failure |-> Undefined, data |-> Undefined, now |-> 0, later |-> 0,
   events |-> << >>, hangup |-> Undefined]

\* when the caller destroys its connection: never, or once the listeners
\* have handled k of the n events of the upstream stream (k = 0: at any
\* moment from the arrival of the request to the first event)
Hangups(n) == {Undefined} \cup {Some(k) : k \in 0 .. n}

FailMocks ==
  {[NoMock EXCEPT !.kind = "fail", !.failure = Some(f), !.hangup = h] :
     f \in Failures, h \in Hangups(0)}

JsonMocks ==
  {[NoMock EXCEPT !.kind = "json", !.data = d, !.now = t[1], !.later = t[2], !.hangup = h] :
     d \in JsonDocuments, t \in {c \in Clock \X Clock : c[1] =< c[2]}, h \in Hangups(0)}

\* the upstream answers with a stream that emits up to MaxEvents events, in
\* any order
StreamMocks ==
  UNION {{[NoMock EXCEPT !.kind = "stream", !.events = e, !.hangup = h] : h \in Hangups(Len(e))} :
           e \in SeqsUpTo(EventValues, MaxEvents)}

\* what the upstream and the caller may do with the call made for body b
Mocks(b) ==
  LET all == FailMocks \cup (IF responseType(b) = "json" THEN JsonMocks ELSE StreamMocks)
  IN  IF b \in RelayBodies THEN all
      ELSE {m \in all : m.hangup = Undefined /\ Len(m.events) =< 1}

\* the upstream behaviours of SpecConc: one readable document, one without
\* choices, a 429 with a structured body, and three streams of MaxEvents events:
\* alternating chunks then 'end', alternating chunks then 'error', and 'end'
\* followed by chunks; the caller of the first stream may hang up after the
\* first chunk, the other callers stay connected
ConcJsonMocks ==
  {m \in JsonMocks : /\ m.now = 1700001000
                     /\ m.hangup = Undefined
                     /\ m.data # Undefined
                     /\ m.data[1].usage = Undefined
                     /\ \/ m.data[1].choices = Undefined
                        \/ m.data[1].choices = Some(<<CHOOSE c \in ChoiceValues : c.index = 1>>)}

ConcFailMocks ==
  {m \in FailMocks : /\ m.failure[1].status = 429
                     /\ m.failure[1].body.error # Undefined
                     /\ m.hangup = Undefined}

Alternating(n, first, second) ==
  [i \in 1 .. n |-> EvData(IF i % 2 = 1 THEN first ELSE second)]

ConcEvents ==
  {Alternating(MaxEvents - 1, "data: a\n\n", "data: b\n\n") \o <<EvEnd>>,
   Alternating(MaxEvents - 1, "data: b\n\n", "data: a\n\n") \o <<EvError>>,
   <<EvEnd>> \o Alternating(MaxEvents - 1, "data: a\n\n", "data: b\n\n")}

ConcStreamMocks ==
  {m \in StreamMocks : /\ m.events \in ConcEvents
                       /\ \/ m.hangup = Undefined
                          \/ m.hangup = Some(1) /\ m.events[MaxEvents] = EvEnd}

ConcMocks(rt) == ConcFailMocks \cup (IF rt = "stream" THEN ConcStreamMocks ELSE ConcJsonMocks)

----------------------------------------------------------------------------
(* Initial states *)

KeyValues == {Undefined, Some(""), Some("nvapi-test")}

InitConfig(variant) ==
  /\ process = Load(variant)
  /\ NIM_API_KEY \in KeyValues
  /\ NIM_API_BASE = DefaultBase
  /\ MODEL_MAPPING = IF Load(variant) = "listening" THEN ModelTable ELSE NoTable

InitRest ==
  /\ emitted = [r \in Requests |-> 0]
  /\ sent = [r \in Requests |-> << >>]
  /\ res = [r \in Requests |-> FreshRes]

\* the file as written: nothing listens, no request reaches a handler
InitNotLoaded ==
  /\ InitConfig("as written")
  /\ pc = [r \in Requests |-> "absent"]
  /\ body = [r \in Requests |-> EmptyBody]
  /\ mock = [r \in Requests |-> NoMock]
  /\ InitRest

\* the behaviours drawn for a request with body b: with no usable credential
\* the upstream is never called and has no part to play, and the caller
\* stays or hangs up
Upstreams(key, b, behaviours) ==
  IF TruthyStr(key) THEN behaviours ELSE {[NoMock EXCEPT !.hangup = h] : h \in Hangups(0)}

\* one request has arrived
Init ==
  \/ InitNotLoaded
  \/ /\ InitConfig("comma restored")
     /\ pc = [r \in Requests |-> IF r = 1 THEN "pending" ELSE "absent"]
     /\ \E b \in Bodies : \E m \in Upstreams(NIM_API_KEY, b, Mocks(b)) :
          /\ body = [r \in Requests |-> IF r = 1 THEN b ELSE EmptyBody]
          /\ mock = [r \in Requests |-> IF r = 1 THEN m ELSE NoMock]
     /\ InitRest

\* up to NumRequests requests have arrived; request 1 is one of them
InitConc ==
  \/ InitNotLoaded
  \/ /\ InitConfig("comma restored")
     /\ pc \in [Requests -> {"pending", "absent"}]
     /\ pc[1] = "pending"
     /\ body \in [Requests -> ConcBodies \cup {EmptyBody}]
     /\ mock \in [Requests -> ConcMocks("stream") \cup ConcMocks("json") \cup {NoMock}]
     /\ \A r \in Requests :
          IF pc[r] = "absent"
          THEN body[r] = EmptyBody /\ mock[r] = NoMock
          ELSE /\ body[r] \in ConcBodies
               /\ mock[r] \in Upstreams(NIM_API_KEY, body[r], ConcMocks(responseType(body[r])))
     /\ InitRest

----------------------------------------------------------------------------
(* The handler of POST /v1/chat/completions *)

\* variant: only an unset variable counts as missing (NIM_API_KEY === undefined)
credentialMissing_unsetOnly(key) == key = Undefined

\* if (!NIM_API_KEY)
credentialMissing(key) == ~TruthyStr(key)

\* lines 70-77: no credential
MissingCredential(r) ==
  /\ process = "listening"
  /\ pc[r] = "pending"
  /\ credentialMissing(NIM_API_KEY)
  /\ res' = [res EXCEPT ![r] = statusJson(@, 500, ConfigurationEnvelope)]
  /\ pc' = [pc EXCEPT ![r] = "done"]
  /\ UNCHANGED <<process, config, body, mock, emitted, sent>>

\* lines 79-107: build nimRequest and call axios.post
PostUpstream(r) ==
  /\ process = "listening"
  /\ pc[r] = "pending"
  /\ ~credentialMissing(NIM_API_KEY)
  /\ sent' = [sent EXCEPT ![r] = Append(@, AxiosCall(NIM_API_BASE, NIM_API_KEY, MODEL_MAPPING, body[r]))]
  /\ pc' = [pc EXCEPT ![r] = "awaiting"]
  /\ UNCHANGED <<process, config, body, mock, emitted, res>>

\* lines 153-166: the catch block
catch(rs, error) == statusJson(rs, statusCode(error), ErrorEnvelope(error))

\* axios.post rejects: network failure, timeout or non-2xx status
UpstreamFails(r) ==
  /\ process = "listening"
  /\ pc[r] = "awaiting"
  /\ mock[r].kind = "fail"
  /\ res' = [res EXCEPT ![r] = catch(@, AxiosError(mock[r].failure[1], responseType(body[r])))]
  /\ pc' = [pc EXCEPT ![r] = "done"]
  /\ UNCHANGED <<process, config, body, mock, emitted, sent>>

\* lines 109-126: axios.post resolves with a stream; headers are set, the
\* listeners attached, and the handler returns.  pc "streaming" says that the
\* listeners are attached; they stay attached for good.
StreamBranch(r) ==
  /\ process = "listening"
  /\ pc[r] = "awaiting"
  /\ mock[r].kind # "fail"
  /\ TruthyBool(body[r].stream)
  /\ res' = [res EXCEPT ![r] = setEventStreamHeaders(@)]
  /\ pc' = [pc EXCEPT ![r] = "streaming"]
  /\ UNCHANGED <<process, config, body, mock, emitted, sent>>

\* lines 127-151: axios.post resolves with a parsed document; a TypeError of
\* the reshaping lands in the catch block
JsonBranch(r) ==
  /\ process = "listening"
  /\ pc[r] = "awaiting"
  /\ mock[r].kind # "fail"
  /\ ~TruthyBool(body[r].stream)
  /\ res' = [res EXCEPT ![r] =
               IF ReshapeThrows(mock[r].data)
               THEN catch(@, TypeError(TypeErrorMessage(mock[r].data)))
               ELSE statusJson(@, @.statusCode,
                               openaiResponse(body[r].model, mock[r].data, mock[r].now, mock[r].later))]
  /\ pc' = [pc EXCEPT ![r] = "done"]
  /\ UNCHANGED <<process, config, body, mock, emitted, sent>>

\* response.data emits its next event of the given type to the listeners of
\* request r; a caller that hangs up at this point has done so
Emits(r, type) ==
  /\ process = "listening"
  /\ pc[r] = "streaming"
  /\ emitted[r] < Len(mock[r].events)
  /\ mock[r].hangup = Some(emitted[r]) => res[r].closed
  /\ mock[r].events[emitted[r] + 1].type = type
  /\ emitted' = [emitted EXCEPT ![r] = @ + 1]

\* variant: the listener writes every chunk twice
onData_twice(all, r, chunk) == [all EXCEPT ![r] = write(write(@, chunk), chunk)]

\* variant: the listener writes to a response object shared by all requests
onData_sharedRes(all, r, chunk) == [all EXCEPT ![1] = write(@, chunk)]

\* response.data.on('data', chunk => res.write(chunk))
onData(all, r, chunk) == [all EXCEPT ![r] = write(@, chunk)]

StreamData(r) ==
  /\ Emits(r, "data")
  /\ res' = onData(res, r, mock[r].events[emitted[r] + 1].chunk)
  /\ UNCHANGED <<process, config, pc, body, mock, sent>>

\* response.data.on('end', () => res.end())
onEnd(rs) == end(rs)

StreamEnd(r) ==
  /\ Emits(r, "end")
  /\ res' = [res EXCEPT ![r] = onEnd(@)]
  /\ UNCHANGED <<process, config, pc, body, mock, sent>>

\* variant: the listener reports the error as the catch block does
onError_envelope(rs) == catch(rs, TypeError("aborted"))

\* variant: the listener only logs
onError_logOnly(rs) == rs

\* response.data.on('error', err => { console.error(...); res.end(); })
onError(rs) == end(rs)

StreamError(r) ==
  /\ Emits(r, "error")
  /\ res' = [res EXCEPT ![r] = onError(@)]
  /\ UNCHANGED <<process, config, pc, body, mock, sent>>

\* the caller destroys its connection while its request is in flight: res
\* emits 'close' without having been ended.  The handler registers no
\* listener for it and goes on; the upstream call is not cancelled.
CallerDisconnect(r) ==
  /\ process = "listening"
  /\ pc[r] \in {"pending", "awaiting", "streaming"}
  /\ mock[r].hangup = Some(emitted[r])
  /\ ~res[r].ended
  /\ ~res[r].closed
  /\ res' = [res EXCEPT ![r] = close(@)]
  /\ UNCHANGED <<process, config, pc, body, mock, emitted, sent>>

\* the last byte of an ended response has left: res is closed
ResClose(r) ==
  /\ process = "listening"
  /\ res[r].ended
  /\ ~res[r].closed
  /\ res' = [res EXCEPT ![r] = close(@)]
  /\ UNCHANGED <<process, config, pc, body, mock, emitted, sent>>

\* a later turn of the event loop runs the callback of one 'error' event
\* queued on res.  The handler registers no 'error' listener on res, so an
\* emitted event is unhandled and the process ends with exit code 1; the
\* events still queued are never emitted.  Other callbacks may run between
\* the write and this turn.
ResError(r) ==
  /\ process = "listening"
  /\ res[r].queued # << >>
  /\ res' = [res EXCEPT ![r] = emitErrorNT(@)]
  /\ process' = IF res[r].closed THEN process ELSE "exited"
  /\ UNCHANGED <<config, pc, body, mock, emitted, sent>>

Next ==
  \E r \in Requests :
    \/ MissingCredential(r)
    \/ PostUpstream(r)
    \/ UpstreamFails(r)
    \/ StreamBranch(r)
    \/ JsonBranch(r)
    \/ StreamData(r)
    \/ StreamEnd(r)
    \/ StreamError(r)
    \/ CallerDisconnect(r)
    \/ ResClose(r)
    \/ ResError(r)

Spec == Init /\ [][Next]_vars

SpecConc == InitConc /\ [][Next]_vars

\* the event loop runs every ready continuation and listener, and the 60 s
\* timeout settles every axios.post
FairSpec == Spec /\ \A r \in Requests : WF_vars(UpstreamFails(r) \/ JsonBranch(r) \/ StreamBranch(r))

----------------------------------------------------------------------------
(* Vocabulary of the properties *)

NoCredential == NIM_API_KEY \in {Undefined, Some("")}

IsEnvelope(p) == "error" \in DOMAIN p

StreamRequested(r) == body[r].stream = Some(TRUE)

\* a 2xx document the reshaping can read: it has a choices array whose
\* entries all carry a message
WellFormed(data) ==
  /\ data # Undefined
  /\ data[1].choices # Undefined
  /\ \A i \in 1 .. Len(data[1].choices[1]) : data[1].choices[1][i].message # Undefined

IsPrefix(s, t) == Len(s) =< Len(t) /\ \A i \in 1 .. Len(s) : s[i] = t[i]

\* the chunks of the 'data' events of a sequence of events, in order
IsData(e) == e.type = "data"

DataChunks(events) ==
  LET d == SelectSeq(events, IsData) IN [i \in 1 .. Len(d) |-> d[i].chunk]

\* 'end' and 'error' are the events whose listeners call res.end()
Terminal(e) == e.type \in {"end", "error"}

\* the events that precede the first 'end' or 'error'
BeforeClose(events) ==
  LET T == {i \in 1 .. Len(events) : Terminal(events[i])}
  IN  IF T = {} THEN events
      ELSE SubSeq(events, 1, (CHOOSE i \in T : \A j \in T : i =< j) - 1)

\* the events the listeners of request r have handled so far
Handled(r) == SubSeq(mock[r].events, 1, emitted[r])

\* the events request r's listeners handled before its caller hung up
Heard(r) ==
  LET h == mock[r].hangup
  IN  SubSeq(mock[r].events, 1, IF h # Undefined /\ h[1] < emitted[r] THEN h[1] ELSE emitted[r])

\* the caller of request r has not hung up on any event handled so far
Connected(r) == mock[r].hangup = Undefined \/ mock[r].hangup[1] >= emitted[r]

\* the contract of a node Readable, which response.data is: no event follows
\* 'end' or 'error'
ReadableContract(events) == \A i \in 1 .. Len(events) - 1 : ~Terminal(events[i])

\* what the caller can observe of a response
Visible(rs) ==
  [statusCode |-> rs.statusCode, headers |-> rs.headers, chunks |-> rs.chunks,
   json |-> rs.json, ended |-> rs.ended]

----------------------------------------------------------------------------
(* Properties *)


\* C1: with no credential configured every handled request ends with status
\* 500 and a "configuration_error" envelope, no upstream call is ever issued,
\* and the handler reaches no later step (no request construction, no await).
C1_MissingCredential ==
  NoCredential =>
    \A r \in Requests :
      /\ sent[r] = << >>
      /\ pc[r] \in {"absent", "pending", "done"}
      /\ pc[r] = "done" =>
           /\ res[r].statusCode = 500
           /\ Len(res[r].json) = 1
           /\ IsEnvelope(res[r].json[1])
           /\ res[r].json[1].error.type = "configuration_error"
           /\ res[r].chunks = << >>

C1_Witness ==
  /\ NIM_API_KEY = Some("")
  /\ pc[1] = "done"
  /\ body[1].stream = Some(TRUE)
  /\ body[1].model = Some("constructor")

\* C2: the upstream request carries 0.7 / 2048 / false for omitted
\* temperature / max_tokens / stream, exactly the supplied value for a
\* supplied one, and the messages unmodified.
C2_DefaultsAndPassThrough ==
  \A r \in Requests :
    sent[r] # << >> =>
      LET q == sent[r][1].data
          b == body[r]
      IN  /\ q.temperature = IF b.temperature = Undefined THEN 7 ELSE b.temperature[1]
          /\ q.max_tokens = IF b.max_tokens = Undefined THEN 2048 ELSE b.max_tokens[1]
          /\ q.stream = IF b.stream = Undefined THEN FALSE ELSE b.stream[1]
          /\ q.messages = b.messages

\* C3: the upstream model is the table's value for a key of the table and the
\* value of "gpt-3.5-turbo" for every other identifier, a missing one
\* included; the table is never modified.
C3_ModelResolution ==
  \A r \in Requests :
    sent[r] # << >> =>
      /\ MODEL_MAPPING = ModelTable
      /\ sent[r][1].data.model =
           IF body[r].model # Undefined /\ body[r].model[1] \in DOMAIN ModelTable
           THEN Some(ModelTable[body[r].model[1]])
           ELSE Some(ModelTable["gpt-3.5-turbo"])

\* C4: when the upstream call fails, streaming or not, the caller gets an
\* "nvidia_api_error" envelope whose message is the message of the upstream
\* error body when that body is structured and the failure description
\* otherwise, whose code is the upstream status or 500, sent with that status.
C4_UpstreamFailureEnvelope ==
  \A r \in Requests :
    (pc[r] = "done" /\ sent[r] # << >> /\ mock[r].kind = "fail") =>
      LET f == mock[r].failure[1]
          description == AxiosError(f, sent[r][1].responseType).message
      IN  /\ Len(res[r].json) = 1
          /\ IsEnvelope(res[r].json[1])
          /\ res[r].json[1].error.type = "nvidia_api_error"
          /\ res[r].json[1].error.message =
               IF f.kind = "status" /\ f.body.error # Undefined
               THEN f.body.error[1].message[1] ELSE description
          /\ res[r].json[1].error.code = IF f.kind = "status" THEN f.status ELSE 500
          /\ res[r].statusCode = res[r].json[1].error.code

\* C5: a successful non-streaming answer carries the model the caller asked
\* for (not the upstream one), the upstream choices in number and order with
\* index, role, content and finish_reason unchanged, and the upstream usage,
\* or all-zero counts when the upstream sent none.
C5_NonStreamingSuccess ==
  \A r \in Requests :
    (pc[r] = "done" /\ sent[r] # << >> /\ mock[r].kind = "json"
       /\ ~StreamRequested(r) /\ WellFormed(mock[r].data)) =>
      /\ Len(res[r].json) = 1
      /\ ~IsEnvelope(res[r].json[1])
      /\ res[r].statusCode = 200
      /\ LET out == res[r].json[1]
             up == mock[r].data[1]
         IN  /\ out.model = body[r].model
             /\ out.model # sent[r][1].data.model
             /\ Len(out.choices) = Len(up.choices[1])
             /\ \A i \in 1 .. Len(out.choices) :
                  /\ out.choices[i].index = up.choices[1][i].index
                  /\ out.choices[i].message.role = up.choices[1][i].message[1].role
                  /\ out.choices[i].message.content = up.choices[1][i].message[1].content
                  /\ out.choices[i].finish_reason = up.choices[1][i].finish_reason
             /\ out.usage = IF up.usage = Undefined
                            THEN [prompt_tokens |-> 0, completion_tokens |-> 0, total_tokens |-> 0]
                            ELSE up.usage[1]

C5_Witness ==
  /\ pc[1] = "done"
  /\ sent[1] # << >>
  /\ mock[1].kind = "json"
  /\ body[1].model = Some("gpt-4")
  /\ body[1].stream = Some(FALSE)
  /\ WellFormed(mock[1].data)
  /\ Len(mock[1].data[1].choices[1]) = 2
  /\ mock[1].data[1].usage = Undefined
  /\ Len(res[1].json) = 1

\* C6: on the streaming path the three event-stream headers are in place
\* before the first chunk is written; the caller has at every moment received
\* exactly the chunks the upstream emitted before its stream ended and before
\* the caller hung up, in order and unchanged, one chunk per emission; for a
\* stream that keeps the Readable contract and a caller that stays connected
\* these are all the chunks emitted so far, and when the stream emits 'end'
\* the caller holds the whole sequence and its stream is terminated.
C6_Relay ==
  \A r \in Requests :
    /\ pc[r] \in {"absent", "pending", "awaiting"} => res[r].chunks = << >>
    /\ pc[r] = "streaming" =>
         /\ res[r].headers = EventStreamHeaders
         /\ res[r].statusCode = 200
         /\ res[r].json = << >>
         /\ res[r].chunks = DataChunks(BeforeClose(Heard(r)))
         /\ res[r].ended <=> \E i \in 1 .. emitted[r] : Terminal(mock[r].events[i])
         /\ (ReadableContract(mock[r].events) /\ Connected(r)) =>
              /\ res[r].chunks = DataChunks(Handled(r))
              /\ (emitted[r] > 0 /\ mock[r].events[emitted[r]].type = "end") =>
                   /\ res[r].chunks = DataChunks(mock[r].events)
                   /\ res[r].ended

C6_OneChunkPerEvent ==
  \A r \in Requests :
    /\ Len(res'[r].chunks) =< Len(res[r].chunks) + 1
    /\ IsPrefix(res[r].chunks, res'[r].chunks)

C6_StreamingPassthrough == [] C6_Relay /\ [][C6_OneChunkPerEvent]_vars

C6_Witness ==
  /\ pc[1] = "streaming"
  /\ mock[1].events = <<EvData("data: a\n\n"), EvData("data: b\n\n"), EvEnd>>
  /\ mock[1].hangup = Undefined
  /\ emitted[1] = 3
  /\ res[1].chunks = <<"data: a\n\n", "data: b\n\n">>
  /\ res[1].ended

\* C7: a request issues at most one upstream call and has at most one
\* terminal outcome: one JSON document (error envelope or chat response) sent
\* once, or one stream session, never both; a request whose handler has
\* answered with JSON has exactly one document; nothing is sent as JSON, no
\* status is changed and no upstream call is made once a stream session or a
\* response has started; a closed response stays closed; and over a stream
\* that keeps the Readable contract res.end() is called at most once and no
\* write reaches an ended response.
C7_Outcomes ==
  \A r \in Requests :
    /\ Len(sent[r]) =< 1
    /\ Len(res[r].json) =< 1
    /\ res[r].json # << >> => res[r].chunks = << >> /\ pc[r] = "done"
    /\ pc[r] = "done" =>
         /\ Len(res[r].json) = 1
         /\ res[r].ended
         /\ res[r].endCalls = 1
         /\ res[r].queued = << >>
    /\ pc[r] = "streaming" =>
         /\ res[r].json = << >>
         /\ Len(sent[r]) = 1
         /\ ReadableContract(mock[r].events) =>
              /\ res[r].endCalls = (IF res[r].ended THEN 1 ELSE 0)
              /\ res[r].queued = << >>
              /\ res[r].errors = << >>
    /\ res[r].ended => pc[r] \in {"done", "streaming"}

C7_NothingAfterStart ==
  \A r \in Requests :
    /\ pc[r] \in {"streaming", "done"} =>
         /\ res'[r].json = res[r].json
         /\ sent'[r] = sent[r]
         /\ res'[r].statusCode = res[r].statusCode
    /\ res[r].ended => res'[r].ended

C7_NoRetrySingleOutcome == [] C7_Outcomes /\ [][C7_NothingAfterStart]_vars

C7_Witness ==
  /\ pc[1] = "streaming"
  /\ mock[1].events = <<EvData("data: a\n\n"), EvError>>
  /\ mock[1].hangup = Undefined
  /\ emitted[1] = 2
  /\ Len(sent[1]) = 1
  /\ res[1].ended
  /\ res[1].endCalls = 1
  /\ res[1].json = << >>

\* the listeners of request r have handled an 'error' event
ErrorHandled(r) == \E i \in 1 .. emitted[r] : mock[r].events[i].type = "error"

\* C8: once the upstream stream has emitted 'error', the caller-facing stream
\* is closed, holds exactly the chunks forwarded before it was closed (or
\* before the caller hung up),
\* carries no JSON payload and keeps status 200 and its headers; handling the
\* error changes nothing the caller has received; and whatever the upstream
\* emits after the close, a closed stream receives no further chunk and
\* nothing else the caller sees changes.
C8_ClosedSilently ==
  \A r \in Requests :
    (pc[r] = "streaming" /\ ErrorHandled(r)) =>
      /\ res[r].ended
      /\ res[r].chunks = DataChunks(BeforeClose(Heard(r)))
      /\ res[r].json = << >>
      /\ res[r].statusCode = 200
      /\ res[r].headers = EventStreamHeaders

C8_FrozenAfterClose ==
  \A r \in Requests :
    /\ res[r].ended => Visible(res'[r]) = Visible(res[r])
    /\ (pc[r] = "streaming" /\ emitted'[r] = emitted[r] + 1
          /\ mock[r].events[emitted'[r]].type = "error") =>
         /\ res'[r].ended
         /\ res'[r].chunks = res[r].chunks
         /\ res'[r].json = res[r].json
         /\ res'[r].statusCode = res[r].statusCode
         /\ res'[r].headers = res[r].headers

C8_MidStreamError == [] C8_ClosedSilently /\ [][C8_FrozenAfterClose]_vars

C8_Witness ==
  /\ pc[1] = "streaming"
  /\ mock[1].events = <<EvData("data: a\n\n"), EvError, EvData("data: b\n\n")>>
  /\ mock[1].hangup = Undefined
  /\ emitted[1] = 3
  /\ res[1].chunks = <<"data: a\n\n">>
  /\ res[1].ended
  /\ res[1].json = << >>

\* a failure before any caller-facing response: the upstream call failed, or
\* its 2xx document cannot be reshaped on the non-streaming path
PreResponseFailure(r) ==
  \/ mock[r].kind = "fail"
  \/ mock[r].kind = "json" /\ ~StreamRequested(r) /\ ~WellFormed(mock[r].data)

\* C9: every failure before a response has begun (network failure, timeout,
\* non-2xx status, unreadable 2xx document) ends in one "nvidia_api_error"
\* envelope whose code is the response status, 500 when the upstream gave no
\* status; and every request awaiting the upstream with such a failure ahead
\* eventually gets that envelope.
C9_Envelope ==
  \A r \in Requests :
    (pc[r] = "done" /\ sent[r] # << >> /\ PreResponseFailure(r)) =>
      /\ Len(res[r].json) = 1
      /\ IsEnvelope(res[r].json[1])
      /\ DOMAIN res[r].json[1].error = {"message", "type", "code"}
      /\ res[r].json[1].error.type = "nvidia_api_error"
      /\ res[r].json[1].error.message # ""
      /\ res[r].json[1].error.code = res[r].statusCode
      /\ res[r].statusCode =
           IF mock[r].kind = "fail" /\ mock[r].failure[1].kind = "status"
           THEN mock[r].failure[1].status ELSE 500
      /\ res[r].ended

C9_Answered ==
  \A r \in Requests :
    (pc[r] = "awaiting" /\ PreResponseFailure(r)) ~> (pc[r] = "done" /\ res[r].json # << >>)

C9_FailuresCaught == [] C9_Envelope /\ C9_Answered

C9_Witness ==
  /\ pc[1] = "done"
  /\ sent[1] # << >>
  /\ mock[1].kind = "json"
  /\ mock[1].data # Undefined
  /\ mock[1].data[1].choices = Undefined
  /\ res[1].statusCode = 500
  /\ Len(res[1].json) = 1

\* the state of one request
RequestState(r) == <<pc[r], body[r], mock[r], emitted[r], sent[r], res[r]>>

\* The handler run on one request alone, as a sequential program: the
\* response it has produced when it returns, and after each event of its
\* stream, computed from the credential, the body, the upstream behaviour and
\* the caller of that request only.
AloneAnswer(key, b, m) ==
  IF key \in {Undefined, Some("")} THEN statusJson(FreshRes, 500, ConfigurationEnvelope)
  ELSE IF m.kind = "fail" THEN catch(FreshRes, AxiosError(m.failure[1], responseType(b)))
  ELSE IF b.stream = Some(TRUE) THEN setEventStreamHeaders(FreshRes)
  ELSE IF ReshapeThrows(m.data) THEN catch(FreshRes, TypeError(TypeErrorMessage(m.data)))
  ELSE statusJson(FreshRes, 200, openaiResponse(b.model, m.data, m.now, m.later))

\* the listeners run over events i + 1 .. n of the stream of m, the caller
\* hanging up where m says
RECURSIVE AloneAfter(_, _, _, _)
AloneAfter(rs, m, i, n) ==
  IF i >= n THEN rs
  ELSE LET cur == IF m.hangup = Some(i) THEN close(rs) ELSE rs
           e == m.events[i + 1]
       IN  AloneAfter(IF e.type = "data" THEN write(cur, e.chunk) ELSE end(cur), m, i + 1, n)

AloneRes(key, b, m, position, n) ==
  IF position \in {"absent", "pending", "awaiting"} THEN FreshRes
  ELSE AloneAfter(AloneAnswer(key, b, m), m, 0, n)

AloneSent(key, b, position) ==
  IF position \in {"absent", "pending"} \/ key \in {Undefined, Some("")} THEN << >>
  ELSE <<AxiosCall(DefaultBase, key, ModelTable, b)>>

\* every upstream stream in flight keeps the Readable contract
AllReadable == \A r \in Requests : ReadableContract(mock[r].events)

\* C10: with several requests in flight, in any interleaving, what each
\* caller has received and what was sent upstream for it are at every moment
\* what the handler produces for that request run alone: the chunks are those
\* of its own upstream stream, the JSON answer names its own model, the
\* envelope reports its own failure, the upstream request is built from its
\* own body.  Every step touches the state of one request only and leaves
\* the mapping table and the configuration alone, and while the upstream
\* streams keep the Readable contract no step ends the process.
C10_OwnData ==
  \A r \in Requests :
    /\ Visible(res[r]) = Visible(AloneRes(NIM_API_KEY, body[r], mock[r], pc[r], emitted[r]))
    /\ sent[r] = AloneSent(NIM_API_KEY, body[r], pc[r])
    /\ res[r].chunks = DataChunks(BeforeClose(Heard(r)))
    /\ (res[r].json # << >> /\ ~IsEnvelope(res[r].json[1])) =>
         /\ res[r].json[1].model = body[r].model
         /\ mock[r].kind = "json"
         /\ Len(res[r].json[1].choices) = Len(mock[r].data[1].choices[1])
    /\ (res[r].json # << >> /\ IsEnvelope(res[r].json[1]) /\ ~NoCredential) =>
         /\ PreResponseFailure(r)
         /\ res[r].json[1].error.code =
              IF mock[r].kind = "fail" /\ mock[r].failure[1].kind = "status"
              THEN mock[r].failure[1].status ELSE 500
    /\ sent[r] # << >> =>
         /\ sent[r][1].data.model = Some(ModelTable[body[r].model[1]])
         /\ sent[r][1].data.messages = body[r].messages
         /\ sent[r][1].data.stream = StreamRequested(r)

C10_OneRequestPerStep ==
  /\ config' = config
  /\ \E r \in Requests : \A q \in Requests \ {r} : RequestState(q)' = RequestState(q)
  /\ AllReadable => process' = process

C10_Independence == [] C10_OwnData /\ [][C10_OneRequestPerStep]_vars

C10_Witness ==
  /\ pc[1] = "streaming" /\ pc[2] = "done"
  /\ body[1].model = Some("gpt-4") /\ body[2].model = Some("deepseek-v3.2")
  /\ AllReadable
  /\ res[1].ended
  /\ Len(res[1].chunks) >= 2
  /\ res[1].chunks = DataChunks(mock[1].events)
  /\ Len(res[2].json) = 1
  /\ ~IsEnvelope(res[2].json[1])
  /\ res[2].json[1].model = Some("deepseek-v3.2")
  /\ sent[1] # sent[2]

====
